---- MODULE Spec2Model ----
(***************************************************************************)
(* F.Component (src/js/F/F.Component.js): the show/hide lifecycle, the     *)
(* sub-component registry, singly-mode coordination and event bubbling.    *)
(*                                                                         *)
(* Every method call of the code is synchronous and runs to completion,    *)
(* handlers included, so one action is one top-level call made by the      *)
(* application.  The nested calls (show -> trigger -> the parent's         *)
(* _handleSubComponentShown -> hideAllSubComponents -> hide ...) are the    *)
(* recursive operators below; they thread a record w of the fields that    *)
(* show and hide write.  trace, lastCall and before record one call of a   *)
(* run, its last: what it emitted and invoked, its result, and the fields  *)
(* as it started.                                                          *)
(*                                                                         *)
(* F.CollectionComponent (same file) adds the collection's fetches: a       *)
(* fetch is issued by load and stays outstanding until the application's   *)
(* transport completes it, in any order; its success callback is one more  *)
(* top-level step.  mergeOptions and applyOptions are operators over the   *)
(* prototype chain's options mappings, and destruct is the call that ends  *)
(* a run.                                                                   *)
(*                                                                         *)
(* The instances are F.Component objects; in the runs with a collection b  *)
(* is an F.CollectionComponent.  The application keeps the                 *)
(* components in a tree, each instance with one owner: it adds an instance *)
(* along the pairs of Plan, and only while the instance is detached (no    *)
(* registry holds it and no component is subscribed to its                 *)
(* component:shown, as before its first addComponent and after a           *)
(* removeComponent).  Events set to bubble are application events (evtY).  *)
(***************************************************************************)
EXTENDS Integers, Sequences, FiniteSets, TLC

\* ------------------------------------------------------------------ bounds
\* Calls a run makes before the call it observes: in the runs of the
\* composition and visibility calls, and in the runs with bubbling.
MaxSteps == 3
MaxBubbleSteps == 4
\* Calls and fetch completions before the observed one, in the runs with a
\* collection; calls before a destruct; levels of a class hierarchy.
MaxCollectionSteps == 3
MaxDestructSteps == 3
MaxDepth == 3

\* ------------------------------------------------------------- the universe
None == "none"

\* The instances: g (root), p, and the leaves a and b.
Comp == {"g", "p", "a", "b"}

\* addComponent(parent, child) pairs the application uses.
Plan == {<<"g", "p">>, <<"g", "b">>, <<"p", "a">>, <<"p", "b">>}

\* toString of each instance's class (F.Component.js:7, part_000:2).
ClassName(c) == CASE c = "g" -> "G" [] c = "p" -> "P" [] c = "a" -> "A" [] OTHER -> "B"

\* Custom names handed to addComponent, and names handed to the by-name calls.
CustomNames == {"A"}
Names == {"a", "b", "p"}

\* this.view, this.view.el, and the optional setup / teardown hooks: g has
\* no view, p a view without an element; a has both hooks, b and g setup
\* alone, p teardown alone.
HasView(c) == c \in {"p", "a", "b"}
HasEl(c) == c \in {"a", "b"}
HasSetup(c) == c \in {"g", "a", "b"}
HasTeardown(c) == c \in {"a", "p"}

\* The application event set to bubble, and its arguments.
EvtY == "evtY"
Args == {"x1", "x2"}

VARIABLES
    name,                 \* toString() of each instance
    singly,               \* options.singly
    visibleOption,        \* visible of the options the constructor was given
    overlay,              \* the overlay property of an instance
    visible,              \* options.visible
    isSetup,              \* options.isSetup
    components,           \* this.components: insertion-ordered <<key, comp>>
    slot,                 \* this[componentName]
    parent,               \* this.parent
    currentSubComponent,  \* this.currentSubComponent
    handlers,             \* the handlers registered on each instance, in order
    bubbledEvts,          \* this._bubbledEvts[componentName][evtY] is set
    trace,                \* what the last call emitted and invoked, in order
    lastCall,             \* the last call, its arguments and its result
    before,               \* visible, isSetup, currentSubComponent at its entry
    lastDone,             \* the last of show / hide to complete on an instance
    setupRuns,            \* setup invocations since the last teardown
    bubbleState,          \* per parent and child: the last of bubble / unbubble
    steps,                \* calls made so far
    budget,               \* calls the run makes before the observed one
    isCollection,         \* the instance is an F.CollectionComponent
    params,               \* this.params
    collectionLoaded,     \* this.collectionLoaded
    fetches,              \* collection.fetch requests outstanding, in issue order
    completed,            \* the request whose success callback the last call was
    destructed,           \* destruct() calls an instance has received
    viewRemoved,          \* view.remove() calls an instance's view has received
    hasComponents,        \* this.components exists
    declaredOptions,      \* options of the prototype chain as the classes declare them
    protoOptions,         \* options of the prototype chain, most derived first
    passedOptions,        \* the options argument as the constructor received it
    instanceOptions,      \* the options argument, the object as it is now
    thisOptions,          \* this.options
    optionsRef,           \* the object this.options refers to: 0 is its own
    phase                 \* how far construct has come

vars == <<name, singly, visibleOption, overlay, visible, isSetup, components, slot, parent,
          currentSubComponent, handlers, bubbledEvts, trace, lastCall, before,
          lastDone, setupRuns, bubbleState, steps, budget,
          isCollection, params, collectionLoaded, fetches, completed,
          destructed, viewRemoved, hasComponents,
          declaredOptions, protoOptions, passedOptions, instanceOptions, thisOptions,
          optionsRef, phase>>

\* ------------------------------------------------------------------ helpers
\* decapitalize (F.Component.js:2-4): the first character in lower case.
decapitalize(str) ==
    CASE str = "G" -> "g" [] str = "P" -> "p" [] str = "A" -> "a"
      [] str = "B" -> "b" [] OTHER -> str

\* obj[key] of an insertion-ordered object; None is undefined.
Lookup(reg, key) ==
    IF \E i \in 1..Len(reg) : reg[i].key = key
    THEN reg[CHOOSE i \in 1..Len(reg) : reg[i].key = key].comp
    ELSE None

\* obj[key] = c: an existing key keeps its place, a new one goes last.
Put(reg, key, c) ==
    IF \E i \in 1..Len(reg) : reg[i].key = key
    THEN [i \in 1..Len(reg) |-> IF reg[i].key = key THEN [key |-> key, comp |-> c] ELSE reg[i]]
    ELSE Append(reg, [key |-> key, comp |-> c])

\* delete obj[key]
Delete(reg, key) == SelectSeq(reg, LAMBDA e : e.key # key)

Registered(p, c) == \E i \in 1..Len(components[p]) : components[p][i].comp = c

\* No registry holds c and no component is subscribed to its component:shown.
Detached(c) ==
    /\ \A q \in Comp : ~Registered(q, c)
    /\ \A i \in 1..Len(handlers[c]) : handlers[c][i].kind # "listenTo"

Parents == {pc[1] : pc \in Plan}
Excepts == {{}, {"a"}}

\* --- F.EventEmitter (not in src/): on / off / listenTo / stopListening ---
\* A handler registered on an emitter.  A relay made by bubble is a fresh
\* function each time; ref says it is the function _bubbledEvts[key][evtY]
\* of its owner still holds, which is the only one off() can be given.
Listener(owner) ==
    [kind |-> "listenTo", owner |-> owner, evt |-> "component:shown", key |-> None, ref |-> FALSE]
Relay(owner, key, ref) ==
    [kind |-> "relay", owner |-> owner, evt |-> EvtY, key |-> key, ref |-> ref]

\* owner.listenTo(target, evt, owner._handleSubComponentShown)
listenTo(owner, target, evt) ==
    [handlers EXCEPT ![target] = Append(@, Listener(owner))]

\* owner.stopListening(target): what owner subscribed to with listenTo.
stopListening(owner, target) ==
    [handlers EXCEPT ![target] = SelectSeq(@, LAMBDA h : ~(h.kind = "listenTo" /\ h.owner = owner))]

\* target.on(evtY, handler) with the new relay of owner for key; the relay
\* _bubbledEvts[key][evtY] held before is no longer referenced.
on(target, owner, key) ==
    LET unref == [c \in Comp |->
                    [i \in 1..Len(handlers[c]) |->
                        IF handlers[c][i] = Relay(owner, key, TRUE)
                        THEN Relay(owner, key, FALSE) ELSE handlers[c][i]]]
    IN  [unref EXCEPT ![target] = Append(@, Relay(owner, key, TRUE))]

\* target.off(evtY, handler): removes that function, if target has it.
off(target, owner, key) ==
    [handlers EXCEPT ![target] = SelectSeq(@, LAMBDA h : h # Relay(owner, key, TRUE))]

\* An entry of trace: src emitted evt with data, or src's view or hook ran.
Entry(src, what, evt, data) == [src |-> src, what |-> what, evt |-> evt, data |-> data]
NoData == [name |-> None, component |-> None, arg |-> None]
Log(w, src, what) == [w EXCEPT !.trace = Append(@, Entry(src, what, None, NoData))]

\* {name, component} of component:shown / component:hidden.
Payload(c) == [name |-> name[c], component |-> c, arg |-> None]

\* --- F.CollectionComponent: the fetch parameters and the requests ---
\* A params object maps each key to its value, None where it has no such key.
ParamKeys == {"sort", "page"}
EmptyParams == [k \in ParamKeys |-> None]

\* _.extend({}, a, b): the keys of a, then those of b over them.
extend(a, b) == [k \in DOMAIN a |-> IF b[k] # None THEN b[k] ELSE a[k]]

\* defaultParams of the class (its prototype) and of the constructor's options.
ProtoDefaultParams == [EmptyParams EXCEPT !["sort"] = "name"]
OptionDefaultParams == [EmptyParams EXCEPT !["page"] = "1"]

\* this.defaultParams as construct leaves it.
defaultParams(c) == extend(extend(EmptyParams, ProtoDefaultParams), OptionDefaultParams)

\* The fetchParams the application passes: an object, or nothing at all.
FetchArgs == {"byDate", "empty", "omitted"}
FetchParams(id) ==
    [given |-> id # "omitted",
     map |-> IF id = "byDate" THEN [EmptyParams EXCEPT !["sort"] = "date"]
             ELSE EmptyParams]
Omitted == FetchParams("omitted")

\* collection.fetch({data, success}): the data, the callback the success
\* function was given ("show" is the function show() makes, "app" one of the
\* application's), and options.silent of the show() that made the request.
Request(c, data, callback) ==
    [comp |-> c, data |-> data, callback |-> callback, silent |-> FALSE]
NoRequest == Request(None, EmptyParams, None)

RemoveAt(seq, i) == SubSeq(seq, 1, i - 1) \o SubSeq(seq, i + 1, Len(seq))

\* The fields the nested calls write, as the call starts.
World ==
    [visible |-> visible, isSetup |-> isSetup, cur |-> currentSubComponent,
     trace |-> <<>>, lastDone |-> lastDone, setupRuns |-> setupRuns,
     params |-> params, loaded |-> collectionLoaded, fetches |-> fetches,
     completed |-> NoRequest]

Snapshot ==
    [visible |-> visible, isSetup |-> isSetup, cur |-> currentSubComponent,
     loaded |-> collectionLoaded, params |-> params]

\* ------------------------------------------------------ the nested calls
RECURSIVE show(_, _, _), hide(_, _, _), trigger(_, _, _, _), dispatch(_, _, _, _, _)
RECURSIVE handleSubComponentShown(_, _, _), hideEach(_, _, _, _), showEach(_, _, _, _)
RECURSIVE callShow(_, _, _, _), collectionShow(_, _, _, _)

\* this.setup(options) and this.teardown(options): the hooks' invocations.
invokeSetup(w, c) == [Log(w, c, "setup") EXCEPT !.setupRuns[c] = @ + 1]
invokeTeardown(w, c) == [Log(w, c, "teardown") EXCEPT !.setupRuns[c] = 0]

\* trigger(evt, data) of the emitter c: the handlers registered for evt run
\* in registration order.
trigger(w, c, evt, data) ==
    dispatch([w EXCEPT !.trace = Append(@, Entry(c, "emit", evt, data))],
             handlers[c], 1, evt, data)

\* A handler is the parent's bound _handleSubComponentShown (listenTo) or a
\* relay made by bubble, which re-triggers the event on its owner.
dispatch(w, hs, i, evt, data) ==
    IF i > Len(hs) THEN w
    ELSE LET h == hs[i]
             w1 == IF h.evt # evt THEN w
                   ELSE IF h.kind = "listenTo"
                        THEN handleSubComponentShown(w, h.owner, data)
                        ELSE trigger(w, h.owner, evt, data)
         IN  dispatch(w1, hs, i + 1, evt, data)

\* show that triggers component:shown once it has shown itself.
showEmitsLast(w, c, silent) ==
    LET w1 == IF HasView(c)
              THEN LET v == Log(w, c, "view.show")
                   IN  IF ~v.isSetup[c] /\ HasSetup(c)
                       THEN [invokeSetup(v, c) EXCEPT !.isSetup[c] = TRUE]
                       ELSE v
              ELSE w
        w2 == [Log(w1, c, "options.visible") EXCEPT !.visible[c] = TRUE, !.lastDone[c] = "show"]
    IN  IF silent THEN w2 ELSE trigger(w2, c, "component:shown", Payload(c))

\* show that calls setup whenever the hook exists, isSetup or not.
showAlwaysSetup(w, c, silent) ==
    LET w1 == IF silent THEN w ELSE trigger(w, c, "component:shown", Payload(c))
        w2 == IF HasView(c)
              THEN LET v == Log(w1, c, "view.show")
                   IN  IF HasSetup(c)
                       THEN [invokeSetup(v, c) EXCEPT !.isSetup[c] = TRUE]
                       ELSE v
              ELSE w1
    IN  [Log(w2, c, "options.visible") EXCEPT !.visible[c] = TRUE, !.lastDone[c] = "show"]

show(w, c, silent) ==
    LET w1 == IF silent THEN w ELSE trigger(w, c, "component:shown", Payload(c))
        w2 == IF HasView(c)
              THEN LET v == Log(w1, c, "view.show")
                   IN  IF ~v.isSetup[c] /\ HasSetup(c)
                       THEN [invokeSetup(v, c) EXCEPT !.isSetup[c] = TRUE]
                       ELSE v
              ELSE w1
    IN  [Log(w2, c, "options.visible") EXCEPT !.visible[c] = TRUE, !.lastDone[c] = "show"]

\* hide without the early return of an already hidden component.
hideNoGuard(w, c, silent) ==
    LET w1 == IF HasView(c) THEN Log(w, c, "view.hide") ELSE w
        w2 == IF silent THEN w1 ELSE trigger(w1, c, "component:hidden", Payload(c))
        w3 == IF w2.isSetup[c] /\ HasTeardown(c)
              THEN [invokeTeardown(w2, c) EXCEPT !.isSetup[c] = FALSE]
              ELSE w2
    IN  [w3 EXCEPT !.visible[c] = FALSE, !.lastDone[c] = "hide"]

\* hide that leaves options.visible as it was when it ran teardown.
hideKeepsVisible(w, c, silent) ==
    IF ~w.visible[c] THEN w
    ELSE LET w1 == IF HasView(c) THEN Log(w, c, "view.hide") ELSE w
             w2 == IF silent THEN w1 ELSE trigger(w1, c, "component:hidden", Payload(c))
         IN  IF w2.isSetup[c] /\ HasTeardown(c)
             THEN [invokeTeardown(w2, c) EXCEPT !.isSetup[c] = FALSE, !.lastDone[c] = "hide"]
             ELSE [w2 EXCEPT !.visible[c] = FALSE, !.lastDone[c] = "hide"]

hide(w, c, silent) ==
    IF ~w.visible[c] THEN w
    ELSE LET w1 == IF HasView(c) THEN Log(w, c, "view.hide") ELSE w
             w2 == IF silent THEN w1 ELSE trigger(w1, c, "component:hidden", Payload(c))
             w3 == IF w2.isSetup[c] /\ HasTeardown(c)
                   THEN [invokeTeardown(w2, c) EXCEPT !.isSetup[c] = FALSE]
                   ELSE w2
         IN  [w3 EXCEPT !.visible[c] = FALSE, !.lastDone[c] = "hide"]

\* for (componentName in this.components) of hideAllSubComponents
hideEach(w, reg, i, except) ==
    IF i > Len(reg) THEN w
    ELSE hideEach(IF reg[i].key \in except THEN w ELSE hide(w, reg[i].comp, FALSE),
                  reg, i + 1, except)

hideAllSubComponents(w, p, except) == hideEach(w, components[p], 1, except)

\* for (componentName in this.components) of showAllSubComponents
showEach(w, reg, i, except) ==
    IF i > Len(reg) THEN w
    ELSE showEach(IF reg[i].key \in except THEN w ELSE callShow(w, reg[i].comp, Omitted, FALSE),
                  reg, i + 1, except)

showAllSubComponents(w, p, except) == showEach(w, components[p], 1, except)

\* The handler that records the shown child without hiding the others.
handleSubComponentShownNoHide(w, p, evt) ==
    LET newComponent == Lookup(components[p], evt.name)
    IN  IF newComponent = None THEN w
        ELSE LET w1 == IF singly[p] /\ ~overlay[newComponent]
                       THEN [w EXCEPT !.cur[p] = newComponent]
                       ELSE w
                 w2 == trigger(w1, p, "subComponent:shown",
                               [name |-> evt.name, component |-> evt.component, arg |-> None])
             IN  callShow(w2, p, Omitted, FALSE)

\* The handler without the overlay test.
handleSubComponentShownNoOverlay(w, p, evt) ==
    LET newComponent == Lookup(components[p], evt.name)
    IN  IF newComponent = None THEN w
        ELSE LET w1 == IF singly[p]
                       THEN [hideAllSubComponents(w, p, {evt.name})
                               EXCEPT !.cur[p] = newComponent]
                       ELSE w
                 w2 == trigger(w1, p, "subComponent:shown",
                               [name |-> evt.name, component |-> evt.component, arg |-> None])
             IN  callShow(w2, p, Omitted, FALSE)

\* The handler that does not show its own component.
handleSubComponentShownNoShow(w, p, evt) ==
    LET newComponent == Lookup(components[p], evt.name)
    IN  IF newComponent = None THEN w
        ELSE LET w1 == IF singly[p] /\ ~overlay[newComponent]
                       THEN [hideAllSubComponents(w, p, {evt.name})
                               EXCEPT !.cur[p] = newComponent]
                       ELSE w
             IN  trigger(w1, p, "subComponent:shown",
                         [name |-> evt.name, component |-> evt.component, arg |-> None])

handleSubComponentShown(w, p, evt) ==
    LET newComponent == Lookup(components[p], evt.name)
    IN  IF newComponent = None THEN w
        ELSE LET w1 == IF singly[p] /\ ~overlay[newComponent]
                       THEN [hideAllSubComponents(w, p, {evt.name})
                               EXCEPT !.cur[p] = newComponent]
                       ELSE w
                 w2 == trigger(w1, p, "subComponent:shown",
                               [name |-> evt.name, component |-> evt.component, arg |-> None])
             IN  callShow(w2, p, Omitted, FALSE)

\* --- F.CollectionComponent: load, refresh, show and the success function ---
\* load that merges with the defaults whether fetchParams is passed or not.
loadAlwaysMerges(w, c, fetchParams, callback) ==
    LET data == extend(extend(EmptyParams, defaultParams(c)), fetchParams.map)
    IN  [Log(w, c, "collection.fetch")
            EXCEPT !.params[c] = data,
                   !.fetches = Append(@, Request(c, data, callback))]

\* load that marks the collection as not loaded while it fetches.
loadResetsLoaded(w, c, fetchParams, callback) ==
    LET data == IF fetchParams.given
                THEN extend(extend(EmptyParams, defaultParams(c)), fetchParams.map)
                ELSE w.params[c]
    IN  [Log(w, c, "collection.fetch")
            EXCEPT !.params[c] = data, !.loaded[c] = FALSE,
                   !.fetches = Append(@, Request(c, data, callback))]

\* load(fetchParams, callback): the request is outstanding when it returns.
load(w, c, fetchParams, callback) ==
    LET data == IF fetchParams.given
                THEN extend(extend(EmptyParams, defaultParams(c)), fetchParams.map)
                ELSE w.params[c]
    IN  [Log(w, c, "collection.fetch")
            EXCEPT !.params[c] = data,
                   !.fetches = Append(@, Request(c, data, callback))]

\* refresh(callback)
refresh(w, c, callback) == load(w, c, [given |-> TRUE, map |-> w.params[c]], callback)

\* The request load has just issued, with options.silent of its show().
IssuedBy(w, silent) == [w EXCEPT !.fetches[Len(w.fetches)].silent = silent]

\* show that goes to the inherited show without the initial load.
collectionShowWithoutLoad(w, c, fetchParams, silent) ==
    IF fetchParams.given
    THEN IssuedBy(load(w, c, fetchParams, "show"), silent)
    ELSE show(w, c, silent)

\* show(options) of F.CollectionComponent; fetchParams is options.params.
collectionShow(w, c, fetchParams, silent) ==
    IF fetchParams.given
    THEN IssuedBy(load(w, c, fetchParams, "show"), silent)
    ELSE IF ~w.loaded[c]
    THEN IssuedBy(refresh(w, c, "show"), silent)
    ELSE show(w, c, silent)

\* component.show(options), by the class of the instance.
callShow(w, c, fetchParams, silent) ==
    IF isCollection[c] THEN collectionShow(w, c, fetchParams, silent)
    ELSE show(w, c, silent)

\* The success function that stores the data of its request as this.params.
successRestoresParams(w, req) ==
    LET c == req.comp
        w1 == trigger(w, c, "collectionLoaded", NoData)
        w2 == [w1 EXCEPT !.loaded[c] = TRUE, !.params[c] = req.data, !.completed = req]
    IN  IF req.callback = "show" THEN callShow(w2, c, Omitted, FALSE)
        ELSE IF req.callback = "app" THEN Log(w2, c, "callback")
        ELSE w2

\* The success function load hands to collection.fetch, as the fetch of
\* req succeeds.
success(w, req) ==
    LET c == req.comp
        w1 == trigger(w, c, "collectionLoaded", NoData)
        w2 == [w1 EXCEPT !.loaded[c] = TRUE, !.completed = req]
    IN  IF req.callback = "show" THEN callShow(w2, c, Omitted, FALSE)
        ELSE IF req.callback = "app" THEN Log(w2, c, "callback")
        ELSE w2

\* --- mergeOptions and applyOptions ---
\* An options object maps each key to its value, None where it has no such
\* key.  The classes declare defaults for DefaultKeys alone.
DefaultKeys == {"singly", "visible"}
OptionKeys == DefaultKeys \cup {"el"}
EmptyOptions == [k \in OptionKeys |-> None]
ClassOptions == {m \in [OptionKeys -> {None, "yes", "no"}] : m["el"] = None}

\* A prototype of the chain: whether it has an options property of its own.
NoOwnOptions == [own |-> FALSE, options |-> EmptyOptions]
Level == {NoOwnOptions} \cup {[own |-> TRUE, options |-> m] : m \in ClassOptions}
Chains == UNION {[1..n -> Level] : n \in 1..MaxDepth}

\* The objects of optionSets are references: 0 the new {}, i the options
\* of the i-th prototype.
Deref(protos, ref) == IF ref = 0 THEN EmptyOptions ELSE protos[ref].options

RECURSIVE optionSetsPushed(_, _, _), optionSets(_, _, _), extendApply(_, _, _, _)

\* The walk that appends each prototype's options instead of prepending it.
optionSetsPushed(protos, i, sets) ==
    IF i > Len(protos) THEN sets
    ELSE optionSetsPushed(protos, i + 1, IF protos[i].own THEN Append(sets, i) ELSE sets)

\* while (proto) { if own options: optionSets.unshift(proto.options); proto = proto.superClass }
optionSets(protos, i, sets) ==
    IF i > Len(protos) THEN sets
    ELSE optionSets(protos, i + 1, IF protos[i].own THEN <<i>> \o sets ELSE sets)

\* _.extend.apply(_, sets): each later object is copied over the first.
extendApply(protos, target, sets, j) ==
    IF j > Len(sets) THEN target
    ELSE extendApply(protos, extend(target, Deref(protos, sets[j])), sets, j + 1)

\* mergeOptions(): this.options, the object it is, and the prototypes' options.
mergeOptions(protos) ==
    LET sets == <<0>> \o optionSets(protos, 1, <<>>)
        merged == extendApply(protos, Deref(protos, sets[1]), sets, 2)
    IN  [ref |-> sets[1], options |-> merged,
         protos |-> IF sets[1] = 0 THEN protos
                    ELSE [protos EXCEPT ![sets[1]].options = merged]]

\* applyOptions that copies every passed option, a default or not.
applyOptionsUnchecked(opts, arg) ==
    LET applied == extend(opts, arg)
    IN  [options |-> applied, arg |-> extend(arg, applied)]

\* applyOptions(options): this.options and the options argument afterwards.
applyOptions(opts, arg) ==
    LET applied == [k \in OptionKeys |->
                      IF arg[k] # None /\ opts[k] # None THEN arg[k] ELSE opts[k]]
    IN  [options |-> applied, arg |-> extend(arg, applied)]

\* --- destruct ---
\* The fields destruct writes, as the call starts.
Tree ==
    [slot |-> slot, handlers |-> handlers, destructed |-> destructed,
     viewRemoved |-> viewRemoved, hasComponents |-> hasComponents]

\* owner.stopListening(): every listenTo subscription of owner, on any emitter.
stopListeningAll(hs, owner) ==
    [t \in Comp |-> SelectSeq(hs[t], LAMBDA h : ~(h.kind = "listenTo" /\ h.owner = owner))]

RECURSIVE destructOwnOnly(_, _), destruct(_, _), destructEach(_, _, _, _)

\* destruct that leaves the sub-components alone.
destructOwnOnly(d, c) ==
    LET d1 == IF HasView(c) THEN [d EXCEPT !.viewRemoved[c] = @ + 1] ELSE d
    IN  [d1 EXCEPT !.handlers = stopListeningAll(@, c),
                   !.hasComponents[c] = FALSE, !.destructed[c] = @ + 1]

destruct(d, c) ==
    LET d1 == IF HasView(c) THEN [d EXCEPT !.viewRemoved[c] = @ + 1] ELSE d
        d2 == destructEach(d1, c, IF d1.hasComponents[c] THEN components[c] ELSE <<>>, 1)
    IN  [d2 EXCEPT !.handlers = stopListeningAll(@, c),
                   !.hasComponents[c] = FALSE, !.destructed[c] = @ + 1]

\* for (var component in this.components) of destruct
destructEach(d, c, reg, i) ==
    IF i > Len(reg) THEN d
    ELSE destructEach([destruct(d, reg[i].comp) EXCEPT !.slot[c][reg[i].key] = None],
                      c, reg, i + 1)

\* ------------------------------------------------------------------ actions
Call(op, self, comp, key, arg, silent, ret) ==
    [op |-> op, self |-> self, comp |-> comp, key |-> key, arg |-> arg,
     silent |-> silent, ret |-> ret]

\* No call is under observation.
Idle == Call(None, None, None, None, None, FALSE, None)

\* The fields a call leaves as w has them; trace, lastCall and before record
\* the call when it is the one under observation, the last of the run.
Commit(w, call, obs) ==
    /\ visible' = w.visible
    /\ isSetup' = w.isSetup
    /\ currentSubComponent' = w.cur
    /\ lastDone' = w.lastDone
    /\ setupRuns' = w.setupRuns
    /\ params' = w.params
    /\ collectionLoaded' = w.loaded
    /\ fetches' = w.fetches
    /\ completed' = IF obs THEN w.completed ELSE NoRequest
    /\ trace' = IF obs THEN w.trace ELSE <<>>
    /\ lastCall' = IF obs THEN call ELSE Idle
    /\ before' = IF obs THEN Snapshot
                 ELSE [visible |-> w.visible, isSetup |-> w.isSetup, cur |-> w.cur,
                       loaded |-> w.loaded, params |-> w.params]
    /\ steps' = steps + 1

\* A call may start: none was observed yet, and it is the observed one or
\* the run has calls left before that one.
Ready(obs) == lastCall = Idle /\ (obs \/ steps < budget)

\* The fields of the instances as their constructors leave them.
Fresh ==
    /\ name = [c \in Comp |-> ClassName(c)]
    /\ isSetup = [c \in Comp |-> FALSE]
    /\ components = [c \in Comp |-> <<>>]
    /\ slot = [c \in Comp |-> [n \in Names |-> None]]
    /\ parent = [c \in Comp |-> None]
    /\ currentSubComponent = [c \in Comp |-> None]
    /\ handlers = [c \in Comp |-> <<>>]
    /\ bubbledEvts = [c \in Comp |-> [n \in Names |-> FALSE]]
    /\ trace = <<>>
    /\ lastCall = Idle
    /\ lastDone = [c \in Comp |-> "none"]
    /\ setupRuns = [c \in Comp |-> 0]
    /\ bubbleState = [c \in Comp |-> [d \in Comp |-> "never"]]
    /\ steps = 0
    /\ params = [c \in Comp |-> IF isCollection[c]
                                 THEN extend(EmptyParams, defaultParams(c))
                                 ELSE EmptyParams]
    /\ collectionLoaded = [c \in Comp |-> FALSE]
    /\ fetches = <<>>
    /\ completed = NoRequest
    /\ destructed = [c \in Comp |-> 0]
    /\ viewRemoved = [c \in Comp |-> 0]
    /\ hasComponents = [c \in Comp |-> TRUE]
    /\ before = Snapshot

\* The runs of the lifecycle start with every constructor returned.
Constructed ==
    /\ Fresh
    /\ declaredOptions = <<>>
    /\ protoOptions = <<>>
    /\ passedOptions = EmptyOptions
    /\ instanceOptions = EmptyOptions
    /\ thisOptions = EmptyOptions
    /\ optionsRef = 0
    /\ phase = "constructed"

\* After construction: options.singly of g and p, options.visible of the
\* leaves and the overlay property of b are the application's choice.
Init ==
    /\ singly \in {f \in [Comp -> BOOLEAN] : f["g"] /\ ~f["a"] /\ ~f["b"]}
    /\ overlay \in {f \in [Comp -> BOOLEAN] : ~f["g"] /\ ~f["p"] /\ ~f["a"]}
    /\ visibleOption \in {f \in [Comp -> BOOLEAN] : ~f["g"] /\ ~f["p"]}
    /\ visible = visibleOption
    /\ budget = MaxSteps
    /\ isCollection = [c \in Comp |-> FALSE]
    /\ Constructed

\* The runs with bubbling start from the default options (F.Component.js:10-14).
InitBubble ==
    /\ singly = [c \in Comp |-> FALSE]
    /\ overlay = [c \in Comp |-> FALSE]
    /\ visibleOption = [c \in Comp |-> FALSE]
    /\ visible = visibleOption
    /\ budget = MaxBubbleSteps
    /\ isCollection = [c \in Comp |-> FALSE]
    /\ Constructed

\* The runs with a collection: b is an F.CollectionComponent, g and p have
\* options.singly, and options.visible of the leaves is the application's
\* choice.
InitCollection ==
    /\ singly = [c \in Comp |-> c \in {"g", "p"}]
    /\ overlay = [c \in Comp |-> FALSE]
    /\ visibleOption \in {f \in [Comp -> BOOLEAN] : ~f["g"] /\ ~f["p"]}
    /\ visible = visibleOption
    /\ budget = MaxCollectionSteps
    /\ isCollection = [c \in Comp |-> c = "b"]
    /\ Constructed

\* The runs that end with a destruct start from the default options.
InitDestruct ==
    /\ singly = [c \in Comp |-> FALSE]
    /\ overlay = [c \in Comp |-> FALSE]
    /\ visibleOption = [c \in Comp |-> FALSE]
    /\ visible = visibleOption
    /\ budget = MaxDestructSteps
    /\ isCollection = [c \in Comp |-> FALSE]
    /\ Constructed

\* What the lifecycle calls never write.
Static ==
    <<singly, visibleOption, overlay, budget, isCollection,
      destructed, viewRemoved, hasComponents, declaredOptions,
      protoOptions, passedOptions, instanceOptions, thisOptions, optionsRef, phase>>

DoShow(c, silent, obs) ==
    /\ Ready(obs)
    /\ Commit(callShow(World, c, Omitted, silent),
              Call("show", c, None, None, None, silent, "this"), obs)
    /\ UNCHANGED <<Static, name, components, slot, parent, handlers, bubbledEvts, bubbleState>>

DoHide(c, silent, obs) ==
    /\ Ready(obs)
    /\ Commit(hide(World, c, silent),
              Call("hide", c, None, None, None, silent,
                   IF visible[c] THEN "this" ELSE "false"), obs)
    /\ UNCHANGED <<Static, name, components, slot, parent, handlers, bubbledEvts, bubbleState>>

DoShowAllSubComponents(p, except, obs) ==
    /\ Ready(obs)
    /\ Commit(showAllSubComponents(World, p, except),
              Call("showAllSubComponents", p, None, None, None, FALSE, "this"), obs)
    /\ UNCHANGED <<Static, name, components, slot, parent, handlers, bubbledEvts, bubbleState>>

DoHideAllSubComponents(p, except, obs) ==
    /\ Ready(obs)
    /\ Commit(hideAllSubComponents(World, p, except),
              Call("hideAllSubComponents", p, None, None, None, FALSE, "this"), obs)
    /\ UNCHANGED <<Static, name, components, slot, parent, handlers, bubbledEvts, bubbleState>>

\* addComponent(component, componentName); customName None is the call
\* without a second argument.
DoAddComponent(p, c, customName, obs) ==
    LET componentName == IF customName # None THEN decapitalize(customName)
                         ELSE decapitalize(name[c])
        w == IF HasView(c)
             THEN IF HasEl(c)
                  THEN IF visible[c] THEN callShow(World, c, Omitted, TRUE)
                       ELSE Log(World, c, "view.$el.hide")
                  ELSE Log(World, p, "console.warn")
             ELSE World
    IN  /\ Ready(obs)
        /\ <<p, c>> \in Plan
        /\ Detached(c)
        /\ name' = [name EXCEPT ![c] = componentName]
        /\ slot' = [slot EXCEPT ![p][componentName] = c]
        /\ components' = [components EXCEPT ![p] = Put(@, componentName, c)]
        /\ parent' = [parent EXCEPT ![c] = p]
        /\ handlers' = listenTo(p, c, "component:shown")
        /\ Commit(w, Call("addComponent", p, c, componentName, None, FALSE, c), obs)
        /\ UNCHANGED <<Static, bubbledEvts, bubbleState>>

DoRemoveComponent(p, componentName, obs) ==
    LET component == slot[p][componentName]
    IN  /\ Ready(obs)
        /\ IF component # None
           THEN /\ handlers' = stopListening(p, component)
                /\ slot' = [slot EXCEPT ![p][componentName] = None]
                /\ components' = [components EXCEPT ![p] = Delete(@, componentName)]
           ELSE UNCHANGED <<handlers, slot, components>>
        /\ Commit(World, Call("removeComponent", p, component, componentName, None, FALSE, "this"), obs)
        /\ UNCHANGED <<Static, name, parent, bubbledEvts, bubbleState>>

\* bubble(componentName, evtY)
DoBubble(p, componentName, obs) ==
    /\ Ready(obs)
    /\ IF slot[p][componentName] = None
       THEN /\ Commit(Log(World, p, "console.error"),
                      Call("bubble", p, None, componentName, None, FALSE, "this"), obs)
            /\ UNCHANGED <<handlers, bubbledEvts, bubbleState>>
       ELSE /\ bubbledEvts' = [bubbledEvts EXCEPT ![p][componentName] = TRUE]
            /\ handlers' = on(slot[p][componentName], p, componentName)
            /\ bubbleState' = [bubbleState EXCEPT ![p][slot[p][componentName]] = "bubbled"]
            /\ Commit(World, Call("bubble", p, slot[p][componentName], componentName,
                                  None, FALSE, "this"), obs)
    /\ UNCHANGED <<Static, name, components, slot, parent>>

\* unbubble(componentName, evtY); this[componentName].off of an undefined
\* slot is a TypeError, which ends the call.
DoUnbubble(p, componentName, obs) ==
    /\ Ready(obs)
    /\ IF ~bubbledEvts[p][componentName]
       THEN /\ Commit(Log(World, p, "console.warn"),
                      Call("unbubble", p, None, componentName, None, FALSE, "this"), obs)
            /\ UNCHANGED <<handlers, bubbleState>>
       ELSE IF slot[p][componentName] = None
       THEN /\ Commit(World, Call("unbubble", p, None, componentName, None, FALSE, "TypeError"), obs)
            /\ UNCHANGED <<handlers, bubbleState>>
       ELSE /\ handlers' = off(slot[p][componentName], p, componentName)
            /\ bubbleState' = [bubbleState EXCEPT ![p][slot[p][componentName]] = "unbubbled"]
            /\ Commit(World, Call("unbubble", p, slot[p][componentName], componentName,
                                  None, FALSE, "this"), obs)
    /\ UNCHANGED <<Static, name, components, slot, parent, bubbledEvts>>

\* The application's c.trigger(evtY, arg).
DoTrigger(c, arg, obs) ==
    /\ Ready(obs)
    /\ Commit(trigger(World, c, EvtY, [name |-> None, component |-> None, arg |-> arg]),
              Call("trigger", c, None, None, arg, FALSE, "this"), obs)
    /\ UNCHANGED <<Static, name, components, slot, parent, handlers, bubbledEvts, bubbleState>>

\* show({params: fetchParams}) of a collection component.
DoShowParams(c, id, obs) ==
    /\ Ready(obs)
    /\ isCollection[c]
    /\ FetchParams(id).given
    /\ Commit(callShow(World, c, FetchParams(id), FALSE),
              Call("show", c, None, None, id, FALSE, "this"), obs)
    /\ UNCHANGED <<Static, name, components, slot, parent, handlers, bubbledEvts, bubbleState>>

\* load(fetchParams, callback); withCallback says the application passes one.
DoLoad(c, id, withCallback, obs) ==
    /\ Ready(obs)
    /\ isCollection[c]
    /\ Commit(load(World, c, FetchParams(id), IF withCallback THEN "app" ELSE None),
              Call("load", c, None, None, id, FALSE, "this"), obs)
    /\ UNCHANGED <<Static, name, components, slot, parent, handlers, bubbledEvts, bubbleState>>

\* refresh()
DoRefresh(c, obs) ==
    /\ Ready(obs)
    /\ isCollection[c]
    /\ Commit(refresh(World, c, None), Call("refresh", c, None, None, None, FALSE, "this"), obs)
    /\ UNCHANGED <<Static, name, components, slot, parent, handlers, bubbledEvts, bubbleState>>

\* The i-th outstanding fetch succeeds: its success function runs.
DoFetchSuccess(i, obs) ==
    /\ Ready(obs)
    /\ i \in 1..Len(fetches)
    /\ Commit(success([World EXCEPT !.fetches = RemoveAt(@, i)], fetches[i]),
              Call("success", fetches[i].comp, None, None, None, FALSE, None), obs)
    /\ UNCHANGED <<Static, name, components, slot, parent, handlers, bubbledEvts, bubbleState>>

\* The i-th outstanding fetch fails: load passes fetch no error function.
DoFetchError(i, obs) ==
    /\ Ready(obs)
    /\ i \in 1..Len(fetches)
    /\ Commit([World EXCEPT !.fetches = RemoveAt(@, i)],
              Call("error", fetches[i].comp, None, None, None, FALSE, None), obs)
    /\ UNCHANGED <<Static, name, components, slot, parent, handlers, bubbledEvts, bubbleState>>

\* destruct(): the call that ends a run.
DoDestruct(c) ==
    LET d == destruct(Tree, c)
    IN  /\ Ready(TRUE)
        /\ slot' = d.slot
        /\ handlers' = d.handlers
        /\ destructed' = d.destructed
        /\ viewRemoved' = d.viewRemoved
        /\ hasComponents' = d.hasComponents
        /\ lastCall' = Call("destruct", c, None, None, None, FALSE, None)
        /\ trace' = <<>>
        /\ before' = Snapshot
        /\ completed' = NoRequest
        /\ steps' = steps + 1
        /\ UNCHANGED <<singly, visibleOption, overlay, budget, isCollection, name, components,
                       parent, bubbledEvts, bubbleState, visible, isSetup, currentSubComponent,
                       lastDone, setupRuns, params, collectionLoaded, fetches,
                       declaredOptions, protoOptions, passedOptions, instanceOptions, thisOptions, optionsRef, phase>>

\* What construct's option handling never writes.
Lifecycle ==
    <<name, singly, visibleOption, overlay, visible, isSetup, components, slot, parent,
      currentSubComponent, handlers, bubbledEvts, trace, lastCall, before,
      lastDone, setupRuns, bubbleState, steps, budget,
      isCollection, params, collectionLoaded, fetches, completed,
      destructed, viewRemoved, hasComponents>>

\* construct: this.mergeOptions()
DoMergeOptions ==
    LET m == mergeOptions(protoOptions)
    IN  /\ phase = "new"
        /\ thisOptions' = m.options
        /\ optionsRef' = m.ref
        /\ protoOptions' = m.protos
        /\ phase' = "merged"
        /\ UNCHANGED <<Lifecycle, declaredOptions, passedOptions, instanceOptions>>

\* construct: this.applyOptions(options)
DoApplyOptions ==
    LET r == applyOptions(thisOptions, instanceOptions)
    IN  /\ phase = "merged"
        /\ thisOptions' = r.options
        /\ instanceOptions' = r.arg
        /\ protoOptions' = IF optionsRef = 0 THEN protoOptions
                           ELSE [protoOptions EXCEPT ![optionsRef].options = r.options]
        /\ phase' = "constructed"
        /\ UNCHANGED <<Lifecycle, declaredOptions, passedOptions, optionsRef>>

\* new of a class at the end of a hierarchy, with the options argument.
InitOptions ==
    /\ singly = [c \in Comp |-> FALSE]
    /\ overlay = [c \in Comp |-> FALSE]
    /\ visibleOption = [c \in Comp |-> FALSE]
    /\ visible = visibleOption
    /\ budget = 0
    /\ isCollection = [c \in Comp |-> FALSE]
    /\ Fresh
    /\ declaredOptions \in Chains
    /\ protoOptions = declaredOptions
    /\ passedOptions \in [OptionKeys -> {None, "opt"}]
    /\ instanceOptions = passedOptions
    /\ thisOptions = EmptyOptions
    /\ optionsRef = 0
    /\ phase = "new"

Next ==
    \/ \E c \in Comp, silent \in BOOLEAN, obs \in BOOLEAN : DoShow(c, silent, obs)
    \/ \E c \in Comp, silent \in BOOLEAN, obs \in BOOLEAN : DoHide(c, silent, obs)
    \/ \E p \in Parents, except \in Excepts, obs \in BOOLEAN : DoShowAllSubComponents(p, except, obs)
    \/ \E p \in Parents, except \in Excepts, obs \in BOOLEAN : DoHideAllSubComponents(p, except, obs)
    \/ \E p \in Parents, c \in Comp, n \in CustomNames \cup {None}, obs \in BOOLEAN : DoAddComponent(p, c, n, obs)
    \/ \E p \in Parents, n \in Names, obs \in BOOLEAN : DoRemoveComponent(p, n, obs)

NextBubble ==
    \/ \E c \in Comp, obs \in BOOLEAN : DoShow(c, FALSE, obs)
    \/ \E c \in Comp, obs \in BOOLEAN : DoHide(c, FALSE, obs)
    \/ \E p \in Parents, c \in Comp, n \in CustomNames \cup {None}, obs \in BOOLEAN : DoAddComponent(p, c, n, obs)
    \/ \E p \in Parents, n \in Names, obs \in BOOLEAN : DoRemoveComponent(p, n, obs)
    \/ \E p \in Parents, n \in Names, obs \in BOOLEAN : DoBubble(p, n, obs)
    \/ \E p \in Parents, n \in Names, obs \in BOOLEAN : DoUnbubble(p, n, obs)
    \/ \E c \in Comp \ {"g"}, arg \in Args, obs \in BOOLEAN : DoTrigger(c, arg, obs)

NextCollection ==
    \/ \E c \in Comp \ {"g"}, obs \in BOOLEAN : DoShow(c, FALSE, obs)
    \/ \E c \in Comp, id \in FetchArgs, obs \in BOOLEAN : DoShowParams(c, id, obs)
    \/ \E c \in Comp \ {"g"}, obs \in BOOLEAN : DoHide(c, FALSE, obs)
    \/ \E c \in Comp, id \in FetchArgs, cb \in BOOLEAN, obs \in BOOLEAN : DoLoad(c, id, cb, obs)
    \/ \E c \in Comp, obs \in BOOLEAN : DoRefresh(c, obs)
    \/ \E i \in 1..MaxCollectionSteps + 1, obs \in BOOLEAN : DoFetchSuccess(i, obs)
    \/ \E i \in 1..MaxCollectionSteps + 1, obs \in BOOLEAN : DoFetchError(i, obs)
    \/ \E p \in Parents, c \in Comp, obs \in BOOLEAN : DoAddComponent(p, c, None, obs)

NextDestruct ==
    \/ \E p \in Parents, c \in Comp, n \in CustomNames \cup {None}, obs \in BOOLEAN : DoAddComponent(p, c, n, obs)
    \/ \E p \in Parents, n \in Names, obs \in BOOLEAN : DoRemoveComponent(p, n, obs)
    \/ \E c \in Comp : DoDestruct(c)

NextOptions == DoMergeOptions \/ DoApplyOptions

\* ------------------------------------------------------------------ claims
Children(p) == {components[p][i].comp : i \in 1..Len(components[p])}
KeyOf(p, c) == components[p][CHOOSE i \in 1..Len(components[p]) : components[p][i].comp = c].key
ParentOf(c) == IF \E q \in Comp : Registered(q, c)
               THEN CHOOSE q \in Comp : Registered(q, c) ELSE None

RECURSIVE AncestorsOf(_)
AncestorsOf(c) == IF ParentOf(c) = None THEN {}
                  ELSE {ParentOf(c)} \cup AncestorsOf(ParentOf(c))

\* p emitted evt with data during the observed call.
Emitted(p, evt, data) == \E i \in 1..Len(trace) : trace[i] = Entry(p, "emit", evt, data)
EmittedAny(p) == \E i \in 1..Len(trace) : trace[i].src = p /\ trace[i].what = "emit"
Acted(p) == \E i \in 1..Len(trace) : trace[i].src = p

\* c was removed from p with removeComponent and has not been added since.
Released(p, c) == parent[c] = p /\ Detached(c)

\* C1: a component with options.singly has at most one registered child
\* that is not flagged overlay and is visible, in every state.
C1_SinglyExclusive ==
    \A p \in Comp :
        singly[p] => Cardinality({c \in Children(p) : ~overlay[c] /\ visible[c]}) <= 1

\* C2: in a singly parent with registered non-overlay children A and B, A
\* visible, after B.show() A is hidden, B is visible and the parent's
\* currentSubComponent is B.
C2_ShowHidesSibling ==
    (lastCall.op = "show" /\ ~lastCall.silent) =>
        \A p \in Comp, A \in Comp :
            LET B == lastCall.self
            IN  ( /\ singly[p] /\ A # B
                  /\ A \in Children(p) /\ B \in Children(p)
                  /\ ~overlay[A] /\ ~overlay[B]
                  /\ before.visible[A] )
                => (~visible[A] /\ visible[B] /\ currentSubComponent[p] = B)

C2_Witness ==
    /\ lastCall.op = "show" /\ ~lastCall.silent
    /\ \E A \in Comp :
          /\ singly["p"] /\ A # lastCall.self
          /\ {A, lastCall.self} \subseteq Children("p")
          /\ ~overlay[A] /\ ~overlay[lastCall.self]
          /\ before.visible[A] /\ ~visible[A]
          /\ currentSubComponent["p"] = lastCall.self
          /\ before.cur["p"] = A

\* C3: the show of a registered child flagged overlay leaves the visible
\* flag of every sibling and the parent's currentSubComponent as they were.
C3_OverlayKeepsSiblings ==
    lastCall.op = "show" =>
        \A p \in Comp :
            (overlay[lastCall.self] /\ lastCall.self \in Children(p)) =>
                /\ \A s \in Children(p) \ {lastCall.self} : visible[s] = before.visible[s]
                /\ currentSubComponent[p] = before.cur[p]

C3_Witness ==
    /\ lastCall.op = "show" /\ ~lastCall.silent
    /\ overlay[lastCall.self]
    /\ \E p \in Comp, s \in Comp :
          /\ singly[p] /\ s # lastCall.self
          /\ {s, lastCall.self} \subseteq Children(p)
          /\ ~overlay[s] /\ before.visible[s] /\ visible[s]
          /\ currentSubComponent[p] = s
          /\ EmittedAny(p)

\* C4 as stated: isVisible() is true exactly when a show() has completed
\* and no hide() has completed since.
C4_VisibleIffShown ==
    \A c \in Comp : visible[c] <=> lastDone[c] = "show"

\* C4 amended: isVisible() is true exactly when the last of show() and
\* hide() to complete is a show(), or neither has completed yet and the
\* component was constructed with options.visible true.
C4_VisibleIffShownOrConstructedVisible ==
    \A c \in Comp :
        visible[c] <=> \/ lastDone[c] = "show"
                       \/ lastDone[c] = "none" /\ visibleOption[c]

C4_Witness ==
    /\ lastCall.op = "hide"
    /\ visibleOption[lastCall.self]
    /\ before.visible[lastCall.self]
    /\ lastDone[lastCall.self] = "hide"
    /\ ~visible[lastCall.self]

\* C5: setup is invoked only while isSetup is false, so at most once since
\* the last teardown, and isSetup is true exactly when setup has run and
\* teardown has not run since.
C5_SetupGated ==
    \A c \in Comp : setupRuns[c] <= 1 /\ (isSetup[c] <=> setupRuns[c] = 1)

C5_Witness ==
    /\ lastCall.op = "show"
    /\ HasSetup(lastCall.self)
    /\ before.isSetup[lastCall.self] /\ ~before.visible[lastCall.self]
    /\ Acted(lastCall.self)
    /\ setupRuns[lastCall.self] = 1

C7_AncestorsShown ==
    (lastCall.op = "show" /\ ~lastCall.silent) =>
        \A anc \in AncestorsOf(lastCall.self) :
            LET path == {lastCall.self} \cup AncestorsOf(lastCall.self)
                child == CHOOSE x \in path : ParentOf(x) = anc
            IN  /\ visible[anc]
                /\ Emitted(anc, "subComponent:shown",
                           [name |-> KeyOf(anc, child), component |-> child, arg |-> None])

C7_Witness ==
    /\ lastCall.op = "show" /\ ~lastCall.silent
    /\ Cardinality(AncestorsOf(lastCall.self)) = 2
    /\ \A anc \in AncestorsOf(lastCall.self) : ~before.visible[anc] /\ visible[anc]

\* C8: before an unbubble, a trigger of evtY on the child makes the parent
\* emit evtY with the same arguments; after any number of bubble calls
\* followed by unbubble, it makes the parent emit nothing.
C8_UnbubbleStopsRelay ==
    lastCall.op = "trigger" =>
        \A p \in Comp :
            /\ bubbleState[p][lastCall.self] = "bubbled" =>
                    Emitted(p, EvtY, [name |-> None, component |-> None, arg |-> lastCall.arg])
            /\ bubbleState[p][lastCall.self] = "unbubbled" => ~EmittedAny(p)

\* C9: no event emitted by an instance that removeComponent removed makes
\* the former parent emit, hide a child, change currentSubComponent or
\* show itself.
C9_RemovedIsSilent ==
    lastCall.op \in {"show", "trigger"} =>
        \A p \in Comp :
            Released(p, lastCall.self) =>
                /\ ~Acted(p)
                /\ visible[p] = before.visible[p]
                /\ currentSubComponent[p] = before.cur[p]
                /\ \A x \in Children(p) : visible[x] = before.visible[x]

\* C10: no call raises an exception, and bubble on a missing child returns
\* the component with nothing shown, hidden or emitted.
C10_NoThrow ==
    /\ lastCall.ret # "TypeError"
    /\ (lastCall.op = "bubble" /\ lastCall.comp = None) =>
            /\ lastCall.ret = "this"
            /\ visible = before.visible
            /\ \A i \in 1..Len(trace) : trace[i].what # "emit"

\* src emitted evt during the observed call, and the fetches it issued.
EmittedEvt(src, evt) ==
    \E i \in 1..Len(trace) :
        trace[i].src = src /\ trace[i].what = "emit" /\ trace[i].evt = evt
FetchesIssued(src) ==
    Cardinality({i \in 1..Len(trace) :
                    trace[i].src = src /\ trace[i].what = "collection.fetch"})

\* C11 as stated: a collection component that has never loaded is not
\* visible and emits no component:shown; its show() without params issues
\* exactly one fetch; collectionLoaded becomes true in no call but a success
\* callback; after the success callback of the show's fetch it is loaded
\* and visible.
C11_VisibleOnceLoaded ==
    \A c \in Comp :
        isCollection[c] =>
            /\ ~collectionLoaded[c] =>
                    ~visible[c] /\ ~EmittedEvt(c, "component:shown")
            /\ (lastCall.op = "show" /\ lastCall.self = c /\ lastCall.arg = None
                    /\ ~before.loaded[c]) => FetchesIssued(c) = 1
            /\ lastCall.op # "success" => collectionLoaded[c] = before.loaded[c]
            /\ (lastCall.op = "success" /\ completed.comp = c /\ completed.callback = "show")
                    => collectionLoaded[c] /\ visible[c]

\* C11 amended: a collection component that has never loaded has completed
\* no show and emits no component:shown, and is visible only by the visible
\* option it was constructed with; its show() without params issues exactly
\* one fetch; collectionLoaded becomes true in no call but a success
\* callback; after the success callback of the show's fetch it is loaded
\* and visible.
C11_ShownOnceLoaded ==
    \A c \in Comp :
        isCollection[c] =>
            /\ ~collectionLoaded[c] =>
                    /\ lastDone[c] # "show"
                    /\ visible[c] => visibleOption[c] /\ lastDone[c] = "none"
                    /\ ~EmittedEvt(c, "component:shown")
            /\ (lastCall.op = "show" /\ lastCall.self = c /\ lastCall.arg = None
                    /\ ~before.loaded[c]) => FetchesIssued(c) = 1
            /\ lastCall.op # "success" => collectionLoaded[c] = before.loaded[c]
            /\ (lastCall.op = "success" /\ completed.comp = c /\ completed.callback = "show")
                    => collectionLoaded[c] /\ visible[c]

C11_Witness ==
    /\ lastCall.op = "success"
    /\ completed.comp = "b" /\ completed.callback = "show" /\ ~completed.silent
    /\ ~before.loaded["b"] /\ ~before.visible["b"]
    /\ collectionLoaded["b"] /\ visible["b"]
    /\ EmittedEvt("b", "component:shown")
    /\ fetches = <<>>

\* C12 as stated: after load(fetchParams, callback), this.params is
\* defaultParams overlaid with fetchParams, taken as empty when it is
\* omitted, and is the data sent with the fetch.
C12_ParamsRecomputed ==
    lastCall.op = "load" =>
        LET c == lastCall.self
        IN  /\ params[c] = extend(defaultParams(c), FetchParams(lastCall.arg).map)
            /\ fetches # <<>>
            /\ fetches[Len(fetches)].data = params[c]

\* C12 amended: after load(fetchParams, callback), this.params is
\* defaultParams overlaid with fetchParams when fetchParams is passed and is
\* what it was when fetchParams is omitted, and is the data sent with the
\* fetch.
C12_ParamsRecomputedWhenPassed ==
    lastCall.op = "load" =>
        LET c == lastCall.self
        IN  /\ params[c] = IF FetchParams(lastCall.arg).given
                           THEN extend(defaultParams(c), FetchParams(lastCall.arg).map)
                           ELSE before.params[c]
            /\ fetches # <<>>
            /\ fetches[Len(fetches)].data = params[c]
            /\ fetches[Len(fetches)].comp = c

C12_Witness ==
    /\ lastCall.op = "load" /\ lastCall.arg = "omitted"
    /\ before.params[lastCall.self]["sort"] = "date"
    /\ params[lastCall.self] = before.params[lastCall.self]
    /\ fetches[Len(fetches)].data["sort"] = "date"

\* C13: collectionLoaded is false after construction, is made true by no
\* call but a fetch's success function, which makes it true, and once true
\* is true after every call.
C13_LoadedOnce ==
    \A c \in Comp :
        /\ steps = 0 => ~collectionLoaded[c]
        /\ before.loaded[c] => collectionLoaded[c]
        /\ lastCall.op # "success" => collectionLoaded[c] = before.loaded[c]
        /\ (lastCall.op = "success" /\ completed.comp = c) => collectionLoaded[c]

C13_Witness ==
    /\ lastCall.op \in {"load", "refresh", "show"} /\ lastCall.self = "b"
    /\ before.loaded["b"] /\ collectionLoaded["b"]
    /\ FetchesIssued("b") = 1

\* C15 as stated: when the success function of a load runs after another
\* has and none of the component's loads is left outstanding, this.params
\* is the data of that load.
C15_LastSuccessWins ==
    (lastCall.op = "success" /\ before.loaded[completed.comp]
        /\ \A i \in 1..Len(fetches) : fetches[i].comp # completed.comp)
    => params[completed.comp] = completed.data

\* C15 amended: the success function of a load runs whichever other loads
\* are outstanding, leaves them outstanding and leaves this.params as it
\* was: the data of the load issued last, in either completion order.
C15_LastIssuedWins ==
    lastCall.op = "success" =>
        /\ collectionLoaded[completed.comp]
        /\ EmittedEvt(completed.comp, "collectionLoaded")
        /\ params = before.params
        /\ completed.callback = "app" => Acted(completed.comp)

C15_Witness ==
    /\ lastCall.op = "success"
    /\ before.loaded[completed.comp]
    /\ fetches = <<>>
    /\ completed.callback = "app"
    /\ completed.data # params[completed.comp]
    /\ params = before.params

\* C17: addComponent of a child with a view element and options.visible
\* true shows it without a component:shown and leaves the visible flag of
\* the parent and of the other components as it was, in the call and when
\* a fetch the call's show issued succeeds.
C17_AddShowsSilently ==
    /\ (lastCall.op = "addComponent" /\ HasView(lastCall.comp) /\ HasEl(lastCall.comp)
            /\ before.visible[lastCall.comp])
        => /\ ~EmittedEvt(lastCall.comp, "component:shown")
           /\ visible = before.visible
    /\ (lastCall.op = "success" /\ completed.callback = "show" /\ completed.silent)
        => /\ ~EmittedEvt(completed.comp, "component:shown")
           /\ \A x \in Comp \ {completed.comp} : visible[x] = before.visible[x]

\* C16: a non-silent show() first emits component:shown with its name and
\* itself, and once it has called its view's show or written its visible
\* flag nothing else emits or acts; a silent show() emits no
\* component:shown.
C16_EmitsBeforeShowing ==
    lastCall.op = "show" =>
        LET c == lastCall.self
        IN  IF lastCall.silent THEN ~EmittedEvt(c, "component:shown")
            ELSE /\ trace # <<>>
                 /\ trace[1] = Entry(c, "emit", "component:shown",
                                     [name |-> name[c], component |-> c, arg |-> None])
                 /\ \A i \in 1..Len(trace), j \in 1..Len(trace) :
                        ( /\ i < j /\ trace[i].src = c
                          /\ trace[i].what \in {"view.show", "setup", "options.visible"} )
                        => trace[j].src = c /\ trace[j].what # "emit"
                 /\ trace[Len(trace)] = Entry(c, "options.visible", None, NoData)

C16_Witness ==
    /\ lastCall.op = "show" /\ ~lastCall.silent
    /\ \E sib \in Comp, i \in 1..Len(trace), j \in 1..Len(trace) :
          /\ sib # lastCall.self /\ i < j
          /\ before.visible[sib] /\ ~visible[sib]
          /\ trace[i] = Entry(sib, "view.hide", None, NoData)
          /\ trace[j] = Entry(lastCall.self, "view.show", None, NoData)
    /\ ~before.visible[lastCall.self] /\ visible[lastCall.self]

\* C20: a component's currentSubComponent, when set, is held in its
\* components registry.
C20_CurrentIsRegistered ==
    \A p \in Comp :
        currentSubComponent[p] # None => Registered(p, currentSubComponent[p])

\* The levels of the chain that declare key k, and the value the most
\* derived of them declares; None when no level declares it.
Declaring(k) ==
    {i \in 1..Len(declaredOptions) :
        declaredOptions[i].own /\ declaredOptions[i].options[k] # None}
DefaultOf(k) ==
    IF Declaring(k) = {} THEN None
    ELSE declaredOptions[CHOOSE i \in Declaring(k) : \A j \in Declaring(k) : i <= j].options[k]

\* C14: mergeOptions leaves this.options a new object holding every key a
\* level declares, with the value of the most derived level declaring it,
\* and the prototypes' options as the classes declare them.
C14_MergeOptions ==
    phase \in {"merged", "constructed"} =>
        /\ optionsRef = 0
        /\ protoOptions = declaredOptions
        /\ phase = "merged" => \A k \in OptionKeys : thisOptions[k] = DefaultOf(k)

C14_Witness ==
    /\ phase = "merged"
    /\ Len(declaredOptions) = 3
    /\ \A i \in 1..3 : declaredOptions[i].own
    /\ declaredOptions[1].options = [EmptyOptions EXCEPT !["singly"] = "yes"]
    /\ declaredOptions[2].options = [EmptyOptions EXCEPT !["singly"] = "no"]
    /\ declaredOptions[3].options = [singly |-> "no", visible |-> "no", el |-> None]
    /\ thisOptions = [singly |-> "yes", visible |-> "no", el |-> None]

\* C18: after construct, this.options has the keys of the merged defaults,
\* each with the passed value when the options argument has the key and
\* the default otherwise; a passed key that is no default is not in
\* this.options and is in the argument as passed; the argument has every
\* option of this.options with its value.
C18_ApplyOptions ==
    phase = "constructed" =>
        \A k \in OptionKeys :
            /\ thisOptions[k] = IF DefaultOf(k) = None THEN None
                                ELSE IF passedOptions[k] # None THEN passedOptions[k]
                                ELSE DefaultOf(k)
            /\ DefaultOf(k) = None => instanceOptions[k] = passedOptions[k]
            /\ thisOptions[k] # None => instanceOptions[k] = thisOptions[k]

C18_Witness ==
    /\ phase = "constructed"
    /\ passedOptions = [singly |-> "opt", visible |-> None, el |-> "opt"]
    /\ DefaultOf("singly") = "no" /\ DefaultOf("visible") = "yes"
    /\ thisOptions = [singly |-> "opt", visible |-> "yes", el |-> None]
    /\ instanceOptions = [singly |-> "opt", visible |-> "yes", el |-> "opt"]

\* The components in the registry of c, and in theirs.
RECURSIVE DescendantsOf(_)
DescendantsOf(c) ==
    Children(c) \cup UNION {DescendantsOf(x) : x \in Children(c)}

\* C19: after destruct() the component and every component below it has
\* been destructed once, its view removed once, has no registry, no child
\* in a slot and no listenTo subscription; no other component is touched.
C19_DestructReleases ==
    lastCall.op = "destruct" =>
        \A x \in Comp :
            IF x \in {lastCall.self} \cup DescendantsOf(lastCall.self)
            THEN /\ destructed[x] = 1
                 /\ viewRemoved[x] = IF HasView(x) THEN 1 ELSE 0
                 /\ ~hasComponents[x]
                 /\ \A i \in 1..Len(components[x]) : slot[x][components[x][i].key] = None
                 /\ \A t \in Comp : \A i \in 1..Len(handlers[t]) :
                        ~(handlers[t][i].kind = "listenTo" /\ handlers[t][i].owner = x)
            ELSE destructed[x] = 0 /\ viewRemoved[x] = 0 /\ hasComponents[x]

C19_Witness ==
    /\ lastCall.op = "destruct" /\ lastCall.self = "g"
    /\ Children("g") = {"p"} /\ Children("p") = {"a"}
    /\ destructed = [c \in Comp |-> IF c = "b" THEN 0 ELSE 1]
    /\ slot["g"]["p"] = None /\ slot["p"]["a"] = None
    /\ handlers["a"] = <<>> /\ handlers["p"] = <<>>

\* Composition and visibility.
Spec == Init /\ [][Next]_vars

\* Composition, visibility and bubbling.
SpecBubble == InitBubble /\ [][NextBubble]_vars

\* A collection component among plain ones, and its fetches.
SpecCollection == InitCollection /\ [][NextCollection]_vars

\* Composition, then destruct.
SpecDestruct == InitDestruct /\ [][NextDestruct]_vars

\* The option handling of construct.
SpecOptions == InitOptions /\ [][NextOptions]_vars
====
